---- MODULE Spec2Model ----
(***************************************************************************)
(* Retrieval-and-indexing subsystem of the SOW generator.                  *)
(*                                                                         *)
(*   Spec           the two indexers (GDriveIndexer.indexFolder and        *)
(*                  SowIndexer.indexDirectory) run over a corpus, one step *)
(*                  per event-loop turn (each await is a step boundary).   *)
(*   SpecRetriever  RagRetriever: loadIndex, findSimilar,                  *)
(*                  findSimilarByRequirements, filterResults,              *)
(*                  getIndexStats.                                         *)
(*   SpecPersistence  saveIndex of both indexers and the loads of the      *)
(*                  persisted artifacts.                                   *)
(*   SpecFunctions  the pure functions extractMetadata and                 *)
(*                  cosineSimilarity, applied to enumerated arguments.     *)
(*   SpecFlowchart  FlowchartDrawioGenerator.calculateLevels, one step per *)
(*                  iteration of its while loop.                           *)
(*                                                                         *)
(* A JavaScript object is a TLA+ record whose DOMAIN is the set of keys it *)
(* has: an absent key is absent from the DOMAIN.  {...a, ...b} is b @@ a.  *)
(***************************************************************************)
EXTENDS Integers, Sequences, FiniteSets, TLC

VARIABLES
    impl,        \* which indexer class runs: "gdrive" or "sow"
    files,       \* the candidate documents discovered for the run
    outputPath,  \* the outputPath argument of the run
    index,       \* the indexer's this.index
    pos,         \* loop position in files (1-based)
    pc,          \* position of the run
    cur,         \* the loop body's frame: text, metadata, and the calls in flight
    processed,   \* the local counter processed
    failed,      \* the local counter failed
    disk,        \* the file system: path -> content
    summary,     \* value returned by the run
    runs,        \* number of runs started on this indexer instance
    startLen,    \* history: Len(index) when the current run started
    outcomes,    \* history: per visited document, what its processing ended in
    rindex,      \* RagRetriever: this.index
    lastCall     \* the last call made (with its frame while it runs) and what it
                 \* returned or threw

vars == <<impl, files, outputPath, index, pos, pc, cur, processed, failed, disk,
          summary, runs, startLen, outcomes, rindex, lastCall>>

indexerVars == <<impl, files, outputPath, index, pos, pc, cur, processed, failed,
                 disk, summary, runs, startLen, outcomes>>

retrieverVars == <<rindex, lastCall>>

----------------------------------------------------------------------------
(* Bounds of the model *)

MaxDocs == 3        \* longest enumerated small corpus
BigDocs == 51       \* length of the long corpora (past one checkpoint period)
MaxRuns == 2        \* runs started on one indexer instance
MaxStore == 3       \* longest enumerated store of the retriever
MaxTopK == 3        \* largest topK asked for

(* Program constants *)

CheckpointEvery == 50    \* processed % 50 === 0
MinTextLength == 100     \* text.length > 100 / text.length < 100

----------------------------------------------------------------------------
(* Generic helpers *)

Range(s) == {s[i] : i \in 1..Len(s)}

Prefix(s, n) == [i \in 1..(IF n < Len(s) THEN n ELSE Len(s)) |-> s[i]]

IsPrefix(s, t) == Len(s) <= Len(t) /\ \A i \in 1..Len(s) : s[i] = t[i]

SeqsUpTo(S, n) == UNION {[1..k -> S] : k \in 0..n}

Without(r, key) == [f \in DOMAIN r \ {key} |-> r[f]]

Has(r, key) == key \in DOMAIN r

(* A string put together from parts is kept as the sequence of its parts;  *)
(* the empty string is the empty sequence.                                 *)
Str(s) == IF s = "" THEN <<>> ELSE <<s>>

(* list.join(sep) *)
RECURSIVE JoinFrom(_, _, _)
JoinFrom(list, sep, i) ==
    IF i > Len(list) THEN <<>>
    ELSE (IF i = 1 THEN <<>> ELSE <<sep>>) \o Str(list[i]) \o JoinFrom(list, sep, i + 1)

Join(list, sep) == JoinFrom(list, sep, 1)

----------------------------------------------------------------------------
(* Inputs: the corpus.  A candidate document is described by its name and  *)
(* by what the collaborators answer for it.                                *)
(*   name   file name, already split at the separators [_\-\s]+, and its   *)
(*          extension                                                      *)
(*   mime   Drive mimeType: "gdoc" (Google Doc) or "other" (docx, pdf)     *)
(*   text   text extraction: st = "ok" with len characters, "null", or     *)
(*          "throws"                                                       *)
(*   llm    generateContent and the JSON span of its answer:              *)
(*          "object"    the span parses to the metadata object meta        *)
(*          "throws"    the call rejects (error, timeout, quota)           *)
(*          "noSpan"    the answer has no fenced json block and no braces  *)
(*          "malformed" a span is found and JSON.parse throws on it        *)
(*   embed  generateEmbedding: ok with the vector vec, or throws           *)

NoMeta == [customer |-> "none"]

Meta(customer, industry, features, complexity) ==
    [customer |-> customer, project |-> <<customer, " ", "rollout">>, industry |-> industry,
     modules |-> <<"m1">>, integrations |-> <<>>, features |-> features,
     complexity |-> complexity, summary |-> "s", keywords |-> <<customer>>]

DocUsable ==
    [name |-> [tokens |-> <<"SOW", "Acme", "v1">>, ext |-> "docx"], mime |-> "gdoc",
     text |-> [st |-> "ok", len |-> 500],
     llm |-> [kind |-> "object", meta |-> Meta("Acme", "banking", <<"IVR", "queue">>, "high")],
     embed |-> [ok |-> TRUE, vec |-> <<1, 0>>]]

DocLlmFails ==
    [name |-> [tokens |-> <<"Beta", "Scope">>, ext |-> "pdf"], mime |-> "gdoc",
     text |-> [st |-> "ok", len |-> 500],
     llm |-> [kind |-> "throws", meta |-> NoMeta],
     embed |-> [ok |-> TRUE, vec |-> <<0, 1>>]]

DocEmbedThrows ==
    [name |-> [tokens |-> <<"SOW", "Gamma">>, ext |-> "docx"], mime |-> "gdoc",
     text |-> [st |-> "ok", len |-> 500],
     llm |-> [kind |-> "object", meta |-> Meta("Gamma", "healthcare", <<"IVR">>, "low")],
     embed |-> [ok |-> FALSE, vec |-> <<>>]]

DocShort ==
    [name |-> [tokens |-> <<"Delta", "SOW", "2024">>, ext |-> "docx"], mime |-> "gdoc",
     text |-> [st |-> "ok", len |-> 50],
     llm |-> [kind |-> "object", meta |-> Meta("Delta", "telecom", <<>>, "medium")],
     embed |-> [ok |-> TRUE, vec |-> <<1, 1>>]]

DocNull ==
    [name |-> [tokens |-> <<"sow">>, ext |-> "pdf"], mime |-> "other",
     text |-> [st |-> "null", len |-> 0],
     llm |-> [kind |-> "object", meta |-> Meta("Null", "banking", <<>>, "low")],
     embed |-> [ok |-> TRUE, vec |-> <<1, 1>>]]

DocThrows ==
    [name |-> [tokens |-> <<"Statement", "Eps">>, ext |-> "pdf"], mime |-> "gdoc",
     text |-> [st |-> "throws", len |-> 0],
     llm |-> [kind |-> "object", meta |-> Meta("Eps", "banking", <<>>, "low")],
     embed |-> [ok |-> TRUE, vec |-> <<1, 1>>]]

(* documents around the text-length threshold: 99, 100 and 101 characters *)
DocBelowThreshold ==
    [name |-> [tokens |-> <<"SOW", "Eta">>, ext |-> "docx"], mime |-> "gdoc",
     text |-> [st |-> "ok", len |-> MinTextLength - 1],
     llm |-> [kind |-> "object", meta |-> Meta("Eta", "retail", <<"IVR">>, "medium")],
     embed |-> [ok |-> TRUE, vec |-> <<0, 1>>]]

DocAtThreshold ==
    [name |-> [tokens |-> <<"SOW", "Zeta">>, ext |-> "docx"], mime |-> "gdoc",
     text |-> [st |-> "ok", len |-> MinTextLength],
     llm |-> [kind |-> "object", meta |-> Meta("Zeta", "retail", <<"IVR">>, "medium")],
     embed |-> [ok |-> TRUE, vec |-> <<0, 1>>]]

DocAboveThreshold ==
    [name |-> [tokens |-> <<"SOW", "Theta">>, ext |-> "docx"], mime |-> "gdoc",
     text |-> [st |-> "ok", len |-> MinTextLength + 1],
     llm |-> [kind |-> "object", meta |-> Meta("Theta", "retail", <<"IVR">>, "medium")],
     embed |-> [ok |-> TRUE, vec |-> <<0, 1>>]]

DocKinds == {DocUsable, DocLlmFails, DocEmbedThrows, DocShort, DocNull, DocThrows}

(* the scenario of the specification: A usable, B too short, C no text *)
ScenarioABC == <<DocUsable, DocShort, DocNull>>

BigCorpus == [i \in 1..BigDocs |-> DocUsable]

ThresholdCorpus == <<DocBelowThreshold, DocAtThreshold, DocAboveThreshold>>

(* the same document in two revisions: another text, the same metadata *)
DocUsableRevised == [DocUsable EXCEPT !.text.len = 400]

(* a document whose metadata has no features, integrations or modules *)
DocPlain ==
    [name |-> [tokens |-> <<"Scope", "Iota">>, ext |-> "pdf"], mime |-> "gdoc",
     text |-> [st |-> "ok", len |-> 500],
     llm |-> [kind |-> "object",
              meta |-> [Meta("Iota", "retail", <<>>, "low") EXCEPT !.modules = <<>>]],
     embed |-> [ok |-> TRUE, vec |-> <<1, 0>>]]

RevisionCorpus == <<DocUsable, DocUsableRevised, DocPlain>>

Corpora ==
    SeqsUpTo(DocKinds, MaxDocs)
        \cup {ScenarioABC, BigCorpus, ThresholdCorpus, RevisionCorpus}

(* The listing gives every file its own Drive id and its own directory.    *)
MkFiles(corpus) ==
    [i \in 1..Len(corpus) |->
        corpus[i] @@ [fid |-> i, dir |-> i, webViewLink |-> i,
                      createdTime |-> i, modifiedTime |-> i]]

(* Output paths, as the pieces around the occurrences of ".json".          *)
PathJson == <<"data/index", ".json">>
PathNoJson == <<"data/index.txt">>
OutputPaths == {PathJson, PathNoJson}

IoOutcomes == {"ok", "failFull", "failLight"}

----------------------------------------------------------------------------
(* File-name heuristics *)

LowerCase(tok) ==
    CASE tok \in {"SOW", "Sow"} -> "sow"
      [] tok \in {"SCOPE", "Scope"} -> "scope"
      [] tok \in {"VERSION", "Version"} -> "version"
      [] tok \in {"SETUP", "Setup"} -> "setup"
      [] tok \in {"INLINE", "Inline"} -> "inline"
      [] tok = "V1" -> "v1"
      [] tok = "V2" -> "v2"
      [] OTHER -> tok

VDigit == {"v0", "v1", "v2", "v3", "v4", "v5", "v6", "v7", "v8", "v9"}

Digits == {"0", "1", "2", "3", "7", "10", "2023", "2024", "2025"}

(* /^(sow|scope|v\d|version|\d+|setup|inline)$/i *)
GDriveBoilerplate(tok) ==
    LowerCase(tok) \in {"sow", "scope", "version", "setup", "inline"} \cup VDigit \cup Digits

(* p.toLowerCase().match(/^(sow|scope|v\d|version|\d+)$/) *)
SowBoilerplate(tok) ==
    LowerCase(tok) \in {"sow", "scope", "version"} \cup VDigit \cup Digits

(* parts.filter(p => !p.match(...)) *)
KeepG(tok) == ~GDriveBoilerplate(tok)

KeepS(tok) == ~SowBoilerplate(tok)

(* fileName.replace(/\.docx?$|\.pdf$/i, '').split(/[_\-\s]+/) *)
GDriveNameParts(name) ==
    IF name.ext \in {"docx", "doc", "pdf", "DOCX", "DOC", "PDF", ""} \/ name.tokens = <<>>
    THEN name.tokens
    ELSE [name.tokens EXCEPT ![Len(name.tokens)] = @ \o "." \o name.ext]

ExtractMetadataFromFilename(name) ==
    LET filtered == SelectSeq(GDriveNameParts(name), KeepG)
    IN  [customer |-> IF filtered = <<>> THEN "Unknown" ELSE filtered[1],
         project |-> Join(filtered, " "),
         industry |-> "unknown",
         modules |-> <<>>,
         integrations |-> <<>>,
         features |-> <<>>,
         complexity |-> "medium",
         summary |-> "",
         keywords |-> filtered]

(* path.basename(filePath, path.extname(filePath)): the file names of the  *)
(* corpus have their parts separated by "_"                                *)
Basename(name) == Join(name.tokens, "_")

ExtractCustomerFromFilename(name) ==
    LET filtered == SelectSeq(name.tokens, KeepS)
    IN  IF filtered = <<>> THEN "Unknown" ELSE filtered[1]

----------------------------------------------------------------------------
(* Collaborator adapters *)

NullText == [isNull |-> TRUE, len |-> 0]

(* downloadFile / downloadGoogleDoc: a failed download is caught and gives  *)
(* null; anything that is not a Google Doc gives null.                     *)
DownloadFile(file) ==
    IF file.mime = "gdoc" /\ file.text.st = "ok"
    THEN [isNull |-> FALSE, len |-> file.text.len]
    ELSE NullText

(* text && text.length > 100 *)
GDriveTextUsable(text) == ~text.isNull /\ text.len > MinTextLength

(* !(!text || text.length < 100) *)
SowTextUsable(text) == ~(text.isNull \/ text.len = 0 \/ text.len < MinTextLength)

(* the try block of extractMetadata with JSON.parse outside of it *)
TryExtractParseOutside(llm) ==
    CASE llm.kind = "object" -> [raised |-> FALSE, parsed |-> TRUE]
      [] llm.kind = "malformed" -> [raised |-> TRUE, parsed |-> FALSE]
      [] OTHER -> [raised |-> FALSE, parsed |-> FALSE]

(* the try block of extractMetadata: generateContent, the span match and   *)
(* JSON.parse are all inside it, and the catch only logs                   *)
TryExtract(llm) ==
    CASE llm.kind = "object" -> [raised |-> FALSE, parsed |-> TRUE]
      [] OTHER -> [raised |-> FALSE, parsed |-> FALSE]

(* GDriveIndexer.extractMetadata: the parsed JSON, else the file-name fallback *)
GDriveExtractMetadata(file) ==
    IF TryExtract(file.llm).parsed THEN file.llm.meta
    ELSE ExtractMetadataFromFilename(file.name)

(* the basic metadata SowIndexer.extractMetadata returns if the LLM fails *)
SowBasicMetadata(name) ==
    [customer |-> ExtractCustomerFromFilename(name),
     project |-> Basename(name),
     industry |-> "unknown",
     modules |-> <<>>,
     integrations |-> <<>>,
     features |-> <<>>,
     complexity |-> "medium",
     summary |-> "",
     keywords |-> <<>>]

(* SowIndexer.extractMetadata: the parsed JSON, else basic metadata *)
SowExtractMetadata(file) ==
    IF TryExtract(file.llm).parsed THEN file.llm.meta ELSE SowBasicMetadata(file.name)

(* extractMetadata as its caller sees it: returned with a value, or threw *)
ExtractMetadata(class, file) ==
    [status |-> IF TryExtract(file.llm).raised THEN "threw" ELSE "returned",
     value |-> IF class = "gdrive" THEN GDriveExtractMetadata(file)
               ELSE SowExtractMetadata(file)]

(* ${metadata.key} for a string: an absent key reads "undefined" *)
RenderString(metadata, key) ==
    IF Has(metadata, key) THEN Str(metadata[key]) ELSE <<"undefined">>

(* ${metadata.project}: a string kept as its parts *)
RenderParts(metadata, key) ==
    IF Has(metadata, key) THEN metadata[key] ELSE <<"undefined">>

(* ${metadata.key?.join(', ')} *)
RenderList(metadata, key) ==
    IF Has(metadata, key) THEN Join(metadata[key], ", ") ELSE <<"undefined">>

(* createEmbeddingText: the template of eight lines "Label: value", each   *)
(* line kept as <<label, value>>                                           *)
CreateEmbeddingText(metadata) ==
    << <<"Customer", RenderString(metadata, "customer")>>,
       <<"Project", RenderParts(metadata, "project")>>,
       <<"Industry", RenderString(metadata, "industry")>>,
       <<"Features", RenderList(metadata, "features")>>,
       <<"Integrations", RenderList(metadata, "integrations")>>,
       <<"Modules", RenderList(metadata, "modules")>>,
       <<"Summary", RenderString(metadata, "summary")>>,
       <<"Keywords", RenderList(metadata, "keywords")>> >>

(* the raw text put on the Summary line of the embedding text *)
EmbeddingInputWithText(text, metadata) ==
    [CreateEmbeddingText(metadata) EXCEPT ![7] = <<"Summary", <<ToString(text.len)>>>>]

(* this.gemini.generateEmbedding(this.createEmbeddingText(metadata)): the  *)
(* document text in scope is not handed on                                 *)
EmbeddingInput(text, metadata) == CreateEmbeddingText(metadata)

----------------------------------------------------------------------------
(* Records and persistence *)

(* { id, fileName, webViewLink, createdTime, modifiedTime, ...metadata } *)
GDriveRecord(file, metadata) ==
    metadata @@ [id |-> file.fid, fileName |-> file.name, webViewLink |-> file.webViewLink,
                 createdTime |-> file.createdTime, modifiedTime |-> file.modifiedTime]

(* metadata.embedding = embedding *)
WithEmbedding(metadata, embedding) == [embedding |-> embedding] @@ metadata

(* { id: path.basename(filePath), filePath, ...metadata, embedding, textLength } *)
SowRecord(file, metadata, embedding, textLength) ==
    [embedding |-> embedding, textLength |-> textLength]
        @@ metadata
        @@ [id |-> file.name, filePath |-> [dir |-> file.dir, base |-> file.name]]

Missing == [kind |-> "missing", val |-> <<>>]

(* JSON.stringify(this.index, null, 2) *)
Stringify(idx) == [kind |-> "array", val |-> idx]

(* the light index written with the embeddings left in *)
LightIndexWithEmbeddings(idx) == idx

(* this.index.map(({ embedding, ...rest }) => rest) *)
LightIndex(idx) == [i \in 1..Len(idx) |-> Without(idx[i], "embedding")]

(* outputPath.replace('.json', '_metadata.json'): the first occurrence only *)
LightPath(path) ==
    IF \E i \in 1..Len(path) : path[i] = ".json"
    THEN LET first == CHOOSE i \in 1..Len(path) :
                          /\ path[i] = ".json"
                          /\ \A j \in 1..(i - 1) : path[j] # ".json"
         IN  [path EXCEPT ![first] = "_metadata.json"]
    ELSE path

DiskPaths == OutputPaths \cup {LightPath(p) : p \in OutputPaths}

(* saveIndex: the full write, then the light write; a failed write throws  *)
(* and leaves what was written before it.                                  *)
SaveIndex(idx, d, path, outcome) ==
    LET afterFull == [d EXCEPT ![path] = Stringify(idx)]
        afterLight == [afterFull EXCEPT ![LightPath(path)] = Stringify(LightIndex(idx))]
    IN  CASE outcome = "failFull" -> [disk |-> d, threw |-> TRUE]
          [] outcome = "failLight" -> [disk |-> afterFull, threw |-> TRUE]
          [] OTHER -> [disk |-> afterLight, threw |-> FALSE]

----------------------------------------------------------------------------
(* The indexers *)

NoCur == [text |-> NullText, meta |-> NoMeta, embedText |-> <<>>, calls |-> {}]

(* a collaborator call made for the document at position doc *)
Call(name, doc) == [call |-> name, doc |-> doc]

(* a call that is started and not awaited: still in flight at the next one *)
SettledNotAwaited(calls, c) == calls

(* await: the loop body resumes only when the call has resolved or rejected *)
Settled(calls, c) == calls \ {c}

NoSummary == [processed |-> -1, failed |-> -1, total |-> -1]

NoCall ==
    [op |-> "none", status |-> "none", error |-> "none", topK |-> 0, results |-> <<>>,
     arg |-> [type |-> "none"], stats |-> [total |-> -1]]

EmptyArray == [kind |-> "array", val |-> <<>>]

Init ==
    /\ impl \in {"gdrive", "sow"}
    /\ files \in {MkFiles(c) : c \in Corpora}
    /\ outputPath \in OutputPaths
    /\ index = <<>>
    /\ pos = 1
    /\ pc = "idle"
    /\ cur = NoCur
    /\ processed = 0
    /\ failed = 0
    /\ disk = [p \in DiskPaths |-> Missing]
    /\ summary = NoSummary
    /\ runs = 0
    /\ startLen = 0
    /\ outcomes = <<>>
    /\ rindex = EmptyArray
    /\ lastCall = NoCall

(* where the loop goes after the document at position p *)
NextPc(p, first) == IF p > Len(files) THEN "finalSave" ELSE first

(* the call an iteration of the loop starts with, if there is an iteration *)
FirstCall(p, first) == IF p > Len(files) THEN {} ELSE {Call(first, p)}

(* processed % 50 === 0 after processed++ *)
CheckpointDue(n) == n % CheckpointEvery = 0

(* indexFolder up to the loop: counters start at 0, this.index is kept *)
IndexFolderStart ==
    /\ impl = "gdrive"
    /\ pc \in {"idle", "returned", "aborted"}
    /\ runs < MaxRuns
    /\ runs' = runs + 1
    /\ processed' = 0
    /\ failed' = 0
    /\ pos' = 1
    /\ cur' = [NoCur EXCEPT !.calls = FirstCall(1, "download")]
    /\ summary' = NoSummary
    /\ startLen' = Len(index)
    /\ outcomes' = <<>>
    /\ pc' = NextPc(1, "download")
    /\ UNCHANGED <<impl, files, outputPath, index, disk, retrieverVars>>

(* processed++ only on the embedding branch: fallback records not counted *)
GDownloadDoneUncounted ==
    /\ impl = "gdrive"
    /\ pc = "download"
    /\ LET file == files[pos]
           text == DownloadFile(file)
       IN  IF GDriveTextUsable(text)
           THEN /\ cur' = [text |-> text, meta |-> NoMeta, embedText |-> <<>>,
                            calls |-> Settled(cur.calls, Call("download", pos))
                                         \cup {Call("metadata", pos)}]
                /\ pc' = "metadata"
                /\ UNCHANGED <<index, outcomes>>
           ELSE /\ index' = Append(index,
                                   GDriveRecord(file, ExtractMetadataFromFilename(file.name)))
                /\ outcomes' = Append(outcomes, "record")
                /\ pc' = "delay"
                /\ cur' = [text |-> text, meta |-> NoMeta, embedText |-> <<>>,
                            calls |-> Settled(cur.calls, Call("download", pos))]
    /\ UNCHANGED <<impl, files, outputPath, pos, processed, failed, disk, summary, runs,
                   startLen, retrieverVars>>

(* downloadFile has answered; without usable text the file-name metadata   *)
(* is pushed at once                                                       *)
GDownloadDone ==
    /\ impl = "gdrive"
    /\ pc = "download"
    /\ LET file == files[pos]
           text == DownloadFile(file)
       IN  IF GDriveTextUsable(text)
           THEN /\ cur' = [text |-> text, meta |-> NoMeta, embedText |-> <<>>,
                            calls |-> Settled(cur.calls, Call("download", pos))
                                         \cup {Call("metadata", pos)}]
                /\ pc' = "metadata"
                /\ UNCHANGED <<index, processed, outcomes>>
           ELSE /\ index' = Append(index,
                                   GDriveRecord(file, ExtractMetadataFromFilename(file.name)))
                /\ processed' = processed + 1
                /\ outcomes' = Append(outcomes, "record")
                /\ pc' = IF CheckpointDue(processed + 1) THEN "checkpoint" ELSE "delay"
                /\ cur' = [text |-> text, meta |-> NoMeta, embedText |-> <<>>,
                            calls |-> Settled(cur.calls, Call("download", pos))]
    /\ UNCHANGED <<impl, files, outputPath, pos, failed, disk, summary, runs, startLen,
                   retrieverVars>>

(* extractMetadata has answered; the embedding text is built from it *)
GMetadataDone ==
    /\ impl = "gdrive"
    /\ pc = "metadata"
    /\ LET metadata == GDriveExtractMetadata(files[pos])
       IN  cur' = [cur EXCEPT !.meta = metadata,
                              !.embedText = EmbeddingInput(cur.text, metadata),
                              !.calls = Settled(@, Call("metadata", pos))
                                           \cup {Call("embed", pos)}]
    /\ pc' = "embed"
    /\ UNCHANGED <<impl, files, outputPath, index, pos, processed, failed, disk, summary,
                   runs, startLen, outcomes, retrieverVars>>

(* the loop body without its try/catch: a failed embedding ends the run *)
GEmbedDoneUncaught ==
    /\ impl = "gdrive"
    /\ pc = "embed"
    /\ LET file == files[pos]
       IN  IF file.embed.ok
           THEN /\ index' = Append(index,
                                   GDriveRecord(file, WithEmbedding(cur.meta, file.embed.vec)))
                /\ processed' = processed + 1
                /\ outcomes' = Append(outcomes, "record")
                /\ pc' = IF CheckpointDue(processed + 1) THEN "checkpoint" ELSE "delay"
                /\ UNCHANGED failed
           ELSE /\ outcomes' = Append(outcomes, "raised")
                /\ pc' = "aborted"
                /\ UNCHANGED <<index, processed, failed>>
    /\ cur' = [cur EXCEPT !.calls = Settled(@, Call("embed", pos))]
    /\ UNCHANGED <<impl, files, outputPath, pos, disk, summary, runs, startLen,
                   retrieverVars>>

(* generateEmbedding has answered or thrown *)
GEmbedDone ==
    /\ impl = "gdrive"
    /\ pc = "embed"
    /\ LET file == files[pos]
       IN  IF file.embed.ok
           THEN /\ index' = Append(index,
                                   GDriveRecord(file, WithEmbedding(cur.meta, file.embed.vec)))
                /\ processed' = processed + 1
                /\ outcomes' = Append(outcomes, "record")
                /\ pc' = IF CheckpointDue(processed + 1) THEN "checkpoint" ELSE "delay"
                /\ UNCHANGED failed
           ELSE /\ failed' = failed + 1
                /\ outcomes' = Append(outcomes, "raised")
                /\ pc' = "delay"
                /\ UNCHANGED <<index, processed>>
    /\ cur' = [cur EXCEPT !.calls = Settled(@, Call("embed", pos))]
    /\ UNCHANGED <<impl, files, outputPath, pos, disk, summary, runs, startLen,
                   retrieverVars>>

(* the intermediate saveIndex inside the try block *)
GCheckpoint ==
    /\ impl = "gdrive"
    /\ pc = "checkpoint"
    /\ \E outcome \in IoOutcomes :
          LET saved == SaveIndex(index, disk, outputPath, outcome)
          IN  /\ disk' = saved.disk
              /\ IF saved.threw
                 THEN /\ failed' = failed + 1
                      /\ outcomes' = [outcomes EXCEPT ![Len(outcomes)] = "recordRaised"]
                 ELSE UNCHANGED <<failed, outcomes>>
    /\ pc' = "delay"
    /\ UNCHANGED <<impl, files, outputPath, index, pos, cur, processed, summary, runs,
                   startLen, retrieverVars>>

(* await this.delay(100), then the next iteration *)
GDelayDone ==
    /\ impl = "gdrive"
    /\ pc = "delay"
    /\ pos' = pos + 1
    /\ pc' = NextPc(pos + 1, "download")
    /\ cur' = [NoCur EXCEPT !.calls = cur.calls \cup FirstCall(pos + 1, "download")]
    /\ UNCHANGED <<impl, files, outputPath, index, processed, failed, disk, summary, runs,
                   startLen, outcomes, retrieverVars>>

(* the final saveIndex and the return *)
GFinalSave ==
    /\ impl = "gdrive"
    /\ pc = "finalSave"
    /\ \E outcome \in IoOutcomes :
          LET saved == SaveIndex(index, disk, outputPath, outcome)
          IN  /\ disk' = saved.disk
              /\ IF saved.threw
                 THEN pc' = "aborted" /\ UNCHANGED summary
                 ELSE /\ pc' = "returned"
                      /\ summary' = [processed |-> processed, failed |-> failed,
                                     total |-> Len(files)]
    /\ UNCHANGED <<impl, files, outputPath, index, pos, cur, processed, failed, runs,
                   startLen, outcomes, retrieverVars>>

(* SowIndexer.saveIndex: the full write, then the light write *)
SowSaveIndex(idx, d, path, outcome) ==
    LET afterFull == [d EXCEPT ![path] = Stringify(idx)]
        afterLight == [afterFull EXCEPT ![LightPath(path)] = Stringify(LightIndex(idx))]
    IN  CASE outcome = "failFull" -> [disk |-> d, threw |-> TRUE]
          [] outcome = "failLight" -> [disk |-> afterFull, threw |-> TRUE]
          [] OTHER -> [disk |-> afterLight, threw |-> FALSE]

(* indexDirectory up to the loop *)
IndexDirectoryStart ==
    /\ impl = "sow"
    /\ pc \in {"idle", "returned", "aborted"}
    /\ runs < MaxRuns
    /\ runs' = runs + 1
    /\ processed' = 0
    /\ failed' = 0
    /\ pos' = 1
    /\ cur' = [NoCur EXCEPT !.calls = FirstCall(1, "extract")]
    /\ summary' = NoSummary
    /\ startLen' = Len(index)
    /\ outcomes' = <<>>
    /\ pc' = NextPc(1, "extract")
    /\ UNCHANGED <<impl, files, outputPath, index, disk, retrieverVars>>

(* processSowFile: text extraction has answered or thrown; without usable  *)
(* text processSowFile returns null and nothing is pushed or counted       *)
SExtractDone ==
    /\ impl = "sow"
    /\ pc = "extract"
    /\ LET file == files[pos]
           text == IF file.text.st = "ok"
                   THEN [isNull |-> FALSE, len |-> file.text.len]
                   ELSE NullText
       IN  IF file.text.st = "throws"
           THEN /\ failed' = failed + 1
                /\ outcomes' = Append(outcomes, "raised")
                /\ pos' = pos + 1
                /\ pc' = NextPc(pos + 1, "extract")
                /\ cur' = [NoCur EXCEPT !.calls = Settled(cur.calls, Call("extract", pos))
                                                 \cup FirstCall(pos + 1, "extract")]
           ELSE IF ~SowTextUsable(text)
           THEN /\ outcomes' = Append(outcomes, "none")
                /\ pos' = pos + 1
                /\ pc' = NextPc(pos + 1, "extract")
                /\ cur' = [NoCur EXCEPT !.calls = Settled(cur.calls, Call("extract", pos))
                                                 \cup FirstCall(pos + 1, "extract")]
                /\ UNCHANGED failed
           ELSE /\ cur' = [text |-> text, meta |-> NoMeta, embedText |-> <<>>,
                            calls |-> Settled(cur.calls, Call("extract", pos))
                                         \cup {Call("metadata", pos)}]
                /\ pc' = "metadata"
                /\ UNCHANGED <<failed, outcomes, pos>>
    /\ UNCHANGED <<impl, files, outputPath, index, processed, disk, summary, runs, startLen,
                   retrieverVars>>

(* processSowFile: extractMetadata has answered *)
SMetadataDone ==
    /\ impl = "sow"
    /\ pc = "metadata"
    /\ LET metadata == SowExtractMetadata(files[pos])
       IN  cur' = [cur EXCEPT !.meta = metadata,
                              !.embedText = EmbeddingInput(cur.text, metadata),
                              !.calls = Settled(@, Call("metadata", pos))
                                           \cup {Call("embed", pos)}]
    /\ pc' = "embed"
    /\ UNCHANGED <<impl, files, outputPath, index, pos, processed, failed, disk, summary,
                   runs, startLen, outcomes, retrieverVars>>

(* processSowFile: generateEmbedding has answered or thrown; the record is *)
(* pushed and counted, and the loop goes on without a delay                *)
SEmbedDone ==
    /\ impl = "sow"
    /\ pc = "embed"
    /\ LET file == files[pos]
       IN  IF file.embed.ok
           THEN /\ index' = Append(index,
                                   SowRecord(file, cur.meta, file.embed.vec, cur.text.len))
                /\ processed' = processed + 1
                /\ outcomes' = Append(outcomes, "record")
                /\ UNCHANGED failed
           ELSE /\ failed' = failed + 1
                /\ outcomes' = Append(outcomes, "raised")
                /\ UNCHANGED <<index, processed>>
    /\ pos' = pos + 1
    /\ pc' = NextPc(pos + 1, "extract")
    /\ cur' = [NoCur EXCEPT !.calls = Settled(cur.calls, Call("embed", pos))
                                     \cup FirstCall(pos + 1, "extract")]
    /\ UNCHANGED <<impl, files, outputPath, disk, summary, runs, startLen, retrieverVars>>

(* the saveIndex after the loop and the return *)
SFinalSave ==
    /\ impl = "sow"
    /\ pc = "finalSave"
    /\ \E outcome \in IoOutcomes :
          LET saved == SowSaveIndex(index, disk, outputPath, outcome)
          IN  /\ disk' = saved.disk
              /\ IF saved.threw
                 THEN pc' = "aborted" /\ UNCHANGED summary
                 ELSE /\ pc' = "returned"
                      /\ summary' = [processed |-> processed, failed |-> failed,
                                     total |-> Len(files)]
    /\ UNCHANGED <<impl, files, outputPath, index, pos, cur, processed, failed, runs,
                   startLen, outcomes, retrieverVars>>

Next ==
    \/ IndexFolderStart
    \/ GDownloadDone
    \/ GMetadataDone
    \/ GEmbedDone
    \/ GCheckpoint
    \/ GDelayDone
    \/ GFinalSave
    \/ IndexDirectoryStart
    \/ SExtractDone
    \/ SMetadataDone
    \/ SEmbedDone
    \/ SFinalSave

Spec == Init /\ [][Next]_vars

----------------------------------------------------------------------------
(* Properties of the indexers *)

(* what the collaborators make of a document, read off the inputs *)
TextOf(file) ==
    IF impl = "gdrive" THEN DownloadFile(file)
    ELSE IF file.text.st = "ok" THEN [isNull |-> FALSE, len |-> file.text.len]
    ELSE NullText

TextUsable(file) ==
    IF impl = "gdrive" THEN GDriveTextUsable(TextOf(file)) ELSE SowTextUsable(TextOf(file))

(* the document's processing raises inside the loop body, by its inputs *)
RaisesByInput(file) ==
    \/ impl = "sow" /\ file.text.st = "throws"
    \/ ~(impl = "sow" /\ file.text.st = "throws") /\ TextUsable(file) /\ ~file.embed.ok

(* text extraction returned null or fewer than 100 characters, without throwing *)
DegradedText(file) ==
    \/ file.text.st = "null"
    \/ file.text.st = "ok" /\ file.text.len < MinTextLength

RecordId(file) == IF impl = "gdrive" THEN file.fid ELSE file.name

Visited == Len(outcomes)

(* records of the Store not contained in the persisted full index *)
PersistedCount ==
    IF disk[outputPath].kind = "array" THEN Len(disk[outputPath].val) ELSE 0

Unsaved == Len(index) - PersistedCount

(* C1: record ids in the Store are pairwise distinct after any sequence of *)
(* index operations, re-runs on the same store included.                   *)
C1_IdsPairwiseDistinct ==
    \A i, j \in 1..Len(index) : i # j => index[i].id # index[j].id

(* C4: a candidate whose text extraction returns null or fewer than 100    *)
(* characters without throwing still gets a Record with the file-name      *)
(* fallback metadata and no embedding, and is counted in processed; the    *)
(* scenario A, B, C ends with 3 Records, processed = 3, failed = 0.        *)
C4_DegradedDocumentsAreRecorded ==
    /\ \A i \in 1..Len(outcomes) :
          DegradedText(files[i]) =>
             /\ outcomes[i] \in {"record", "recordRaised"}
             /\ \E k \in (startLen + 1)..Len(index) :
                   /\ index[k].id = RecordId(files[i])
                   /\ ~Has(index[k], "embedding")
                   /\ index[k].customer = ExtractMetadataFromFilename(files[i].name).customer
    /\ (pc = "returned" /\ runs = 1 /\ files = MkFiles(ScenarioABC)) =>
          /\ Len(index) = 3
          /\ summary.processed = 3
          /\ summary.failed = 0

(* C5: at every point of a run at most 50 Records of the Store are not yet *)
(* in the persisted full index.                                            *)
C5_AtMostFiftyUnsaved == Unsaved <= CheckpointEvery

C7_CountersMatch ==
    pc = "returned" =>
       /\ summary.processed = Len(index) - startLen
       /\ summary.failed =
             Cardinality({i \in 1..Len(files) : RaisesByInput(files[i])})
             + Cardinality({i \in 1..Len(outcomes) : outcomes[i] = "recordRaised"})
       /\ summary.total = Len(files)

C7_Witness ==
    /\ pc = "returned"
    /\ summary.processed >= 1
    /\ summary.failed >= 1
    /\ summary.total > summary.processed

----------------------------------------------------------------------------
(* Vector math.  A score is the real number dot / (sqrt(normA) sqrt(normB)) *)
(* kept exactly as [num, den] = sign(dot) dot^2 / (normA normB), reduced:   *)
(* x |-> sign(x) x^2 is strictly increasing, so order and equality of      *)
(* scores are order and equality of these fractions.                       *)

Abs(x) == IF x < 0 THEN -x ELSE x

RECURSIVE Gcd(_, _)
Gcd(a, b) == IF b = 0 THEN a ELSE Gcd(b, a % b)

RECURSIVE DotFrom(_, _, _)
DotFrom(a, b, i) == IF i > Len(a) THEN 0 ELSE a[i] * b[i] + DotFrom(a, b, i + 1)

Dot(a, b) == DotFrom(a, b, 1)

ZeroScore == [num |-> 0, den |-> 1]

Fraction(n, d) == LET g == Gcd(Abs(n), d) IN [num |-> n \div g, den |-> d \div g]

(* 0 / 0 in floating point *)
NaN == [num |-> 0, den |-> 0]

(* cosineSimilarity without the check of the norms: a zero norm gives 0 / 0 *)
CosineSimilarityUnguarded(vecA, vecB) ==
    IF ~vecA.present \/ ~vecB.present \/ Len(vecA.v) # Len(vecB.v)
    THEN ZeroScore
    ELSE LET dotProduct == Dot(vecA.v, vecB.v)
             normA == Dot(vecA.v, vecA.v)
             normB == Dot(vecB.v, vecB.v)
         IN  IF normA = 0 \/ normB = 0
             THEN NaN
             ELSE Fraction((IF dotProduct < 0 THEN -1 ELSE 1) * dotProduct * dotProduct,
                           normA * normB)

(* cosineSimilarity dividing by the norm of vecA alone *)
CosineSimilarityOneNorm(vecA, vecB) ==
    IF ~vecA.present \/ ~vecB.present \/ Len(vecA.v) # Len(vecB.v)
    THEN ZeroScore
    ELSE LET dotProduct == Dot(vecA.v, vecB.v)
             normA == Dot(vecA.v, vecA.v)
             normB == Dot(vecB.v, vecB.v)
         IN  IF normA = 0 \/ normB = 0
             THEN ZeroScore
             ELSE Fraction((IF dotProduct < 0 THEN -1 ELSE 1) * dotProduct * dotProduct,
                           normA * normA)

(* vecA, vecB: [present, v]; an undefined vector has present = FALSE *)
CosineSimilarity(vecA, vecB) ==
    IF ~vecA.present \/ ~vecB.present \/ Len(vecA.v) # Len(vecB.v)
    THEN ZeroScore
    ELSE LET dotProduct == Dot(vecA.v, vecB.v)
             normA == Dot(vecA.v, vecA.v)
             normB == Dot(vecB.v, vecB.v)
         IN  IF normA = 0 \/ normB = 0
             THEN ZeroScore
             ELSE Fraction((IF dotProduct < 0 THEN -1 ELSE 1) * dotProduct * dotProduct,
                           normA * normB)

ScoreLess(s, t) == s.num * t.den < t.num * s.den

----------------------------------------------------------------------------
(* RagRetriever *)

Defined(v) == [present |-> TRUE, v |-> v]

Undefined == [present |-> FALSE, v |-> <<>>]

EmbeddingOf(doc) == IF Has(doc, "embedding") THEN Defined(doc.embedding) ELSE Undefined

(* this.index.map(doc => ({ ...doc, score: cosineSimilarity(q, doc.embedding) })) *)
WithScores(docs, queryEmbedding) ==
    [i \in 1..Len(docs) |->
        [score |-> CosineSimilarity(Defined(queryEmbedding), EmbeddingOf(docs[i]))]
            @@ docs[i]]

(* a sort that is not stable: an element goes in front of its equals *)
InsertByScoreBeforeTies(sorted, x) ==
    LET before == {i \in 1..Len(sorted) : ScoreLess(x.score, sorted[i].score)}
        n == IF before = {} THEN 0
             ELSE CHOOSE i \in before : \A j \in before : j <= i
    IN  SubSeq(sorted, 1, n) \o <<x>> \o SubSeq(sorted, n + 1, Len(sorted))

(* Array.prototype.sort((a, b) => b.score - a.score): stable, descending *)
InsertByScore(sorted, x) ==
    LET before == {i \in 1..Len(sorted) : ~ScoreLess(sorted[i].score, x.score)}
        n == IF before = {} THEN 0
             ELSE CHOOSE i \in before : \A j \in before : j <= i
    IN  SubSeq(sorted, 1, n) \o <<x>> \o SubSeq(sorted, n + 1, Len(sorted))

RECURSIVE SortFrom(_, _, _)
SortFrom(docs, i, acc) ==
    IF i > Len(docs) THEN acc ELSE SortFrom(docs, i + 1, InsertByScore(acc, docs[i]))

(* the comparator reversed: (a, b) => a.score - b.score *)
InsertByScoreAscending(sorted, x) ==
    LET before == {i \in 1..Len(sorted) : ~ScoreLess(x.score, sorted[i].score)}
        n == IF before = {} THEN 0
             ELSE CHOOSE i \in before : \A j \in before : j <= i
    IN  SubSeq(sorted, 1, n) \o <<x>> \o SubSeq(sorted, n + 1, Len(sorted))

RECURSIVE SortAscendingFrom(_, _, _)
SortAscendingFrom(docs, i, acc) ==
    IF i > Len(docs) THEN acc
    ELSE SortAscendingFrom(docs, i + 1, InsertByScoreAscending(acc, docs[i]))

SortByScoreAscending(docs) == SortAscendingFrom(docs, 1, <<>>)

SortByScore(docs) == SortFrom(docs, 1, <<>>)

(* .slice(0, topK), topK >= 0 *)
Slice(docs, topK) == Prefix(docs, topK)

(* .map(({ embedding, ...rest }) => rest) *)
StripEmbedding(docs) == [i \in 1..Len(docs) |-> Without(docs[i], "embedding")]

(* findSimilar without the early return on an empty index *)
FindSimilarNoEmptyCheck(idx, query, topK) ==
    CASE idx.kind = "null" ->
            [index |-> idx, status |-> "threw", error |-> "TypeError", results |-> <<>>]
      [] idx.kind = "array" /\ query.ok ->
            [index |-> idx, status |-> "returned", error |-> "none",
             results |-> StripEmbedding(Slice(SortByScore(WithScores(idx.val, query.vec)),
                                              topK))]
      [] idx.kind # "null" /\ ~query.ok ->
            [index |-> idx, status |-> "threw", error |-> "EmbeddingError",
             results |-> <<>>]
      [] OTHER ->
            [index |-> idx, status |-> "threw", error |-> "TypeError", results |-> <<>>]

(* findSimilar scoring and sorting this.index itself instead of a copy *)
FindSimilarInPlace(idx, query, topK) ==
    CASE idx.kind = "null" ->
            [index |-> idx, status |-> "threw", error |-> "TypeError", results |-> <<>>]
      [] idx.kind = "array" /\ Len(idx.val) = 0 ->
            [index |-> idx, status |-> "returned", error |-> "none", results |-> <<>>]
      [] idx.kind = "array" /\ Len(idx.val) > 0 /\ query.ok ->
            [index |-> [kind |-> "array",
                        val |-> SortByScore(WithScores(idx.val, query.vec))],
             status |-> "returned", error |-> "none",
             results |-> StripEmbedding(Slice(SortByScore(WithScores(idx.val, query.vec)),
                                              topK))]
      [] idx.kind # "null" /\ ~(idx.kind = "array" /\ Len(idx.val) = 0) /\ ~query.ok ->
            [index |-> idx, status |-> "threw", error |-> "EmbeddingError",
             results |-> <<>>]
      [] OTHER ->
            [index |-> idx, status |-> "threw", error |-> "TypeError", results |-> <<>>]

(* findSimilar catching the failure of generateEmbedding and returning [] *)
FindSimilarSwallowing(idx, query, topK) ==
    CASE idx.kind = "null" ->
            [index |-> idx, status |-> "threw", error |-> "TypeError", results |-> <<>>]
      [] idx.kind = "array" /\ Len(idx.val) = 0 ->
            [index |-> idx, status |-> "returned", error |-> "none", results |-> <<>>]
      [] idx.kind = "array" /\ Len(idx.val) > 0 /\ query.ok ->
            [index |-> idx, status |-> "returned", error |-> "none",
             results |-> StripEmbedding(Slice(SortByScore(WithScores(idx.val, query.vec)),
                                              topK))]
      [] idx.kind # "null" /\ ~(idx.kind = "array" /\ Len(idx.val) = 0) /\ ~query.ok ->
            [index |-> idx, status |-> "returned", error |-> "none", results |-> <<>>]
      [] OTHER ->
            [index |-> idx, status |-> "threw", error |-> "TypeError", results |-> <<>>]

(* findSimilar(queryText, topK): the index after the call, whether it     *)
(* returned or threw, and the results.  query is what generateEmbedding    *)
(* answers for queryText: [ok, vec].                                       *)
FindSimilar(idx, query, topK) ==
    CASE idx.kind = "null" ->
            [index |-> idx, status |-> "threw", error |-> "TypeError", results |-> <<>>]
      [] idx.kind = "array" /\ Len(idx.val) = 0 ->
            [index |-> idx, status |-> "returned", error |-> "none", results |-> <<>>]
      [] idx.kind = "array" /\ Len(idx.val) > 0 /\ query.ok ->
            [index |-> idx, status |-> "returned", error |-> "none",
             results |-> StripEmbedding(Slice(SortByScore(WithScores(idx.val, query.vec)),
                                              topK))]
      [] idx.kind # "null" /\ ~(idx.kind = "array" /\ Len(idx.val) = 0) /\ ~query.ok ->
            [index |-> idx, status |-> "threw", error |-> "EmbeddingError",
             results |-> <<>>]
      [] OTHER ->
            [index |-> idx, status |-> "threw", error |-> "TypeError", results |-> <<>>]

(* a truthy string / a non-empty list of the requirements object *)
Truthy(req, key) == Has(req, key) /\ req[key] # ""

(* requirements.features && requirements.features.length > 0 *)
NonEmptyList(req, key) == Has(req, key) /\ Len(req[key]) > 0

Line(req, label, key) == IF Truthy(req, key) THEN << <<label, req[key]>> >> ELSE <<>>

ListLine(req, label, key) ==
    IF NonEmptyList(req, key) THEN << <<label, req[key]>> >> ELSE <<>>

(* buildQueryFromRequirements: the present fields, in a fixed label order *)
BuildQueryFromRequirements(req) ==
    Line(req, "Customer", "customer") \o Line(req, "Project", "project")
        \o Line(req, "Industry", "industry") \o ListLine(req, "Features", "features")
        \o ListLine(req, "Integrations", "integrations")
        \o ListLine(req, "Modules", "modules")
        \o Line(req, "Summary", "summary")

(* loadIndex(indexData): an array is taken as it is, a string is a path    *)
(* whose content is parsed, anything else is ignored; the log line then    *)
(* reads this.index.length.                                                *)
LoadIndex(idx, indexData) ==
    CASE indexData.type = "array" ->
            [index |-> [kind |-> "array", val |-> indexData.content.val],
             status |-> "returned", error |-> "none"]
      [] indexData.type = "path" /\ indexData.content.kind = "missing" ->
            [index |-> idx, status |-> "threw", error |-> "ENOENT"]
      [] indexData.type = "path" /\ indexData.content.kind = "invalid" ->
            [index |-> idx, status |-> "threw", error |-> "SyntaxError"]
      [] indexData.type = "path" /\ indexData.content.kind = "null" ->
            [index |-> indexData.content, status |-> "threw", error |-> "TypeError"]
      [] indexData.type = "path"
           /\ indexData.content.kind \notin {"missing", "invalid", "null"} ->
            [index |-> indexData.content, status |-> "returned", error |-> "none"]
      [] OTHER ->
            IF idx.kind = "null"
            THEN [index |-> idx, status |-> "threw", error |-> "TypeError"]
            ELSE [index |-> idx, status |-> "returned", error |-> "none"]

(* complexityOrder = { low: 1, medium: 2, high: 3 }; any other key is undefined *)
ComplexityOrder(c) ==
    CASE c = "low" -> [def |-> TRUE, n |-> 1]
      [] c = "medium" -> [def |-> TRUE, n |-> 2]
      [] c = "high" -> [def |-> TRUE, n |-> 3]
      [] OTHER -> [def |-> FALSE, n |-> 0]

(* undefined < x and x < undefined are both false *)
OrderLess(a, b) == a.def /\ b.def /\ a.n < b.n

DocComplexity(doc) ==
    IF Has(doc, "complexity") THEN ComplexityOrder(doc.complexity)
    ELSE [def |-> FALSE, n |-> 0]

(* the predicate of filterResults *)
KeepResult(doc, criteria) ==
    /\ ~(/\ Truthy(criteria, "industry")
         /\ ~(Has(doc, "industry") /\ doc.industry = criteria.industry))
    /\ ~(/\ Truthy(criteria, "minComplexity")
         /\ OrderLess(DocComplexity(doc), ComplexityOrder(criteria.minComplexity)))
    /\ ~(/\ Has(criteria, "requiredFeatures")
         /\ ~(\A f \in Range(criteria.requiredFeatures) :
                 Has(doc, "features") /\ f \in Range(doc.features)))

(* filterResults letting every result through *)
FilterResultsKeepingAll(results, criteria) == results

FilterResults(results, criteria) ==
    LET keep == {i \in 1..Len(results) : KeepResult(results[i], criteria)}
        F[i \in 0..Len(results)] ==
            IF i = 0 THEN <<>>
            ELSE IF i \in keep THEN Append(F[i - 1], results[i]) ELSE F[i - 1]
    IN  F[Len(results)]

TopFeaturesLimit == 10

(* doc.industry || 'unknown' *)
KeyOr(doc, key) == IF Truthy(doc, key) THEN doc[key] ELSE "unknown"

CountBy(docs, key) ==
    [k \in {KeyOr(docs[i], key) : i \in 1..Len(docs)} |->
        Cardinality({i \in 1..Len(docs) : KeyOr(docs[i], key) = k})]

FeaturesOf(doc) == IF Has(doc, "features") THEN doc.features ELSE <<>>

RECURSIVE AllFeatures(_, _)
AllFeatures(docs, i) ==
    IF i > Len(docs) THEN <<>> ELSE FeaturesOf(docs[i]) \o AllFeatures(docs, i + 1)

Occurrences(s, x) == Cardinality({i \in 1..Len(s) : s[i] = x})

(* Object.entries(features): one [feature, count] per key, in the order of *)
(* first occurrence                                                        *)
FeatureEntries(docs) ==
    LET all == AllFeatures(docs, 1)
        firsts == {i \in 1..Len(all) : \A j \in 1..(i - 1) : all[j] # all[i]}
        F[i \in 0..Len(all)] ==
            IF i = 0 THEN <<>>
            ELSE IF i \in firsts
                 THEN Append(F[i - 1], <<all[i], Occurrences(all, all[i])>>)
                 ELSE F[i - 1]
    IN  F[Len(all)]

(* .sort((a, b) => b[1] - a[1]): stable, descending by count *)
InsertByCount(sorted, x) ==
    LET before == {i \in 1..Len(sorted) : sorted[i][2] >= x[2]}
        n == IF before = {} THEN 0
             ELSE CHOOSE i \in before : \A j \in before : j <= i
    IN  SubSeq(sorted, 1, n) \o <<x>> \o SubSeq(sorted, n + 1, Len(sorted))

RECURSIVE SortByCountFrom(_, _, _)
SortByCountFrom(entries, i, acc) ==
    IF i > Len(entries) THEN acc
    ELSE SortByCountFrom(entries, i + 1, InsertByCount(acc, entries[i]))

NoStats == [total |-> -1]

(* getIndexStats *)
GetIndexStats(idx) ==
    CASE idx.kind = "array" /\ Len(idx.val) = 0 ->
            [status |-> "returned", error |-> "none", stats |-> [total |-> 0]]
      [] idx.kind = "array" /\ Len(idx.val) > 0 ->
            [status |-> "returned", error |-> "none",
             stats |-> [total |-> Len(idx.val),
                        byIndustry |-> CountBy(idx.val, "industry"),
                        topFeatures |->
                            Prefix(SortByCountFrom(FeatureEntries(idx.val), 1, <<>>),
                                   TopFeaturesLimit),
                        byComplexity |-> CountBy(idx.val, "complexity")]]
      [] OTHER ->
            [status |-> "threw", error |-> "TypeError", stats |-> NoStats]

----------------------------------------------------------------------------
(* Inputs of the retriever.  Its stores hold records as indexFolder makes  *)
(* them: with an embedding, or the file-name fallback without one.         *)

DocNegative ==
    [DocUsable EXCEPT !.llm.meta = Meta("Neg", "telecom", <<"queue">>, "medium"),
                      !.embed.vec = <<-1, 0>>]

DocOtherDimension ==
    [DocUsable EXCEPT !.llm.meta = Meta("Dim", "banking", <<"IVR">>, "high"),
                      !.embed.vec = <<1, 0, 0>>]

DocDiagonal ==
    [DocUsable EXCEPT !.llm.meta = Meta("Diag", "healthcare", <<"IVR", "blaster">>, "low"),
                      !.embed.vec = <<1, 1>>]

RetrieverFiles ==
    MkFiles(<<DocUsable, DocLlmFails, DocShort, DocNegative, DocOtherDimension,
              DocDiagonal>>)

(* the record indexFolder pushes for a file whose processing does not raise *)
GDriveRecordOf(file) ==
    IF GDriveTextUsable(DownloadFile(file))
    THEN GDriveRecord(file, WithEmbedding(GDriveExtractMetadata(file), file.embed.vec))
    ELSE GDriveRecord(file, ExtractMetadataFromFilename(file.name))

StoreUniverse == {GDriveRecordOf(RetrieverFiles[i]) : i \in 1..Len(RetrieverFiles)}

Stores == SeqsUpTo(StoreUniverse, MaxStore)

(* five records: ranked against either query, the top three hold one of    *)
(* complexity high and the fourth is of complexity high too                *)
FiveStore ==
    <<GDriveRecordOf(RetrieverFiles[1]), GDriveRecordOf(RetrieverFiles[6]),
      GDriveRecordOf(RetrieverFiles[2]), GDriveRecordOf(RetrieverFiles[5]),
      GDriveRecordOf(RetrieverFiles[4])>>

(* metadata as the LLM may answer it: a complexity outside low/medium/high, *)
(* and no complexity at all                                                *)
DocOddComplexity ==
    [DocUsable EXCEPT !.llm.meta = Meta("Odd", "banking", <<"IVR", "queue">>, "critical")]

DocNoComplexity ==
    [DocUsable EXCEPT
        !.llm.meta = Without(Meta("Bare", "banking", <<"IVR", "queue">>, "low"),
                             "complexity"),
        !.embed.vec = <<1, 1>>]

OddStore ==
    LET fs == MkFiles(<<DocOddComplexity, DocNoComplexity, DocUsable>>)
    IN  [i \in 1..Len(fs) |-> GDriveRecordOf(fs[i])]

ArrayOf(store) == [kind |-> "array", val |-> store]

(* what generateEmbedding answers for the query text *)
QueryAnswers ==
    {[ok |-> TRUE, vec |-> <<1, 0>>], [ok |-> TRUE, vec |-> <<1, 1>>],
     [ok |-> FALSE, vec |-> <<>>]}

TopKs == 0..MaxTopK

RequirementObjects ==
    {[customer |-> "Acme", industry |-> "banking", features |-> <<"IVR">>],
     [customer |-> "", features |-> <<>>, summary |-> "call routing"]}

CriteriaObjects ==
    {[industry |-> "banking"],
     [minComplexity |-> "high"],
     [requiredFeatures |-> <<"IVR", "queue">>],
     [industry |-> "healthcare", minComplexity |-> "low", requiredFeatures |-> <<"IVR">>]}

(* a JSON element that is an object but no Record *)
NotARecord == [junk |-> 1]

SampleStore == <<GDriveRecordOf(RetrieverFiles[3]), GDriveRecordOf(RetrieverFiles[1])>>

(* arguments of loadIndex: an array, a path (with the content of the file  *)
(* at it), or anything else                                                *)
IndexDataValues ==
    {[type |-> "array", content |-> ArrayOf(SampleStore)],
     [type |-> "array", content |-> ArrayOf(<<>>)],
     [type |-> "path", content |-> ArrayOf(SampleStore)],
     [type |-> "path", content |-> ArrayOf(<<NotARecord>>)],
     [type |-> "path", content |-> [kind |-> "object", val |-> <<>>]],
     [type |-> "path", content |-> [kind |-> "null", val |-> <<>>]],
     [type |-> "path", content |-> [kind |-> "invalid", val |-> <<>>]],
     [type |-> "path", content |-> Missing],
     [type |-> "other", content |-> Missing]}

NoArg == [type |-> "none"]

RInit ==
    /\ impl = "gdrive"
    /\ files = <<>>
    /\ outputPath = PathJson
    /\ index = <<>>
    /\ pos = 1
    /\ pc = "idle"
    /\ cur = NoCur
    /\ processed = 0
    /\ failed = 0
    /\ disk = [p \in DiskPaths |-> Missing]
    /\ summary = NoSummary
    /\ runs = 0
    /\ startLen = 0
    /\ outcomes = <<>>
    /\ rindex \in {ArrayOf(st) : st \in Stores \cup {FiveStore, OddStore}}
    /\ lastCall = NoCall

(* A session of a caller (the search and stats commands, generate): the    *)
(* retriever is constructed and loaded, then asked one query, whose        *)
(* results may be filtered.                                                *)
CallerReady == lastCall.op \in {"none", "loadIndex"}

RLoadIndex ==
    /\ CallerReady
    /\ \E indexData \in IndexDataValues :
          LET r == LoadIndex(rindex, indexData)
          IN  /\ rindex' = r.index
              /\ lastCall' = [op |-> "loadIndex", status |-> r.status, error |-> r.error,
                              topK |-> 0, results |-> <<>>, arg |-> indexData,
                              stats |-> NoStats]
    /\ UNCHANGED indexerVars

RFindSimilar ==
    /\ CallerReady
    /\ \E query \in QueryAnswers, topK \in TopKs :
          LET r == FindSimilar(rindex, query, topK)
          IN  /\ rindex' = r.index
              /\ lastCall' = [op |-> "findSimilar", status |-> r.status,
                              error |-> r.error, topK |-> topK, results |-> r.results,
                              arg |-> [type |-> "query", query |-> query, text |-> <<>>],
                              stats |-> NoStats]
    /\ UNCHANGED indexerVars

(* findSimilarByRequirements: findSimilar on the built query text *)
RFindSimilarByRequirements ==
    /\ CallerReady
    /\ \E req \in RequirementObjects, query \in QueryAnswers, topK \in TopKs :
          LET r == FindSimilar(rindex, query, topK)
          IN  /\ rindex' = r.index
              /\ lastCall' = [op |-> "findSimilarByRequirements", status |-> r.status,
                              error |-> r.error, topK |-> topK, results |-> r.results,
                              arg |-> [type |-> "query", query |-> query,
                                       text |-> BuildQueryFromRequirements(req)],
                              stats |-> NoStats]
    /\ UNCHANGED indexerVars

(* filterResults on the results of the query before it *)
RFilterResults ==
    /\ lastCall.op \in {"findSimilar", "findSimilarByRequirements"}
    /\ lastCall.status = "returned"
    /\ \E criteria \in CriteriaObjects :
          lastCall' = [op |-> "filterResults", status |-> "returned", error |-> "none",
                       topK |-> lastCall.topK,
                       results |-> FilterResults(lastCall.results, criteria),
                       arg |-> [type |-> "filter", criteria |-> criteria,
                                input |-> lastCall.results],
                       stats |-> NoStats]
    /\ UNCHANGED rindex
    /\ UNCHANGED indexerVars

RGetIndexStats ==
    /\ CallerReady
    /\ LET r == GetIndexStats(rindex)
       IN  lastCall' = [op |-> "getIndexStats", status |-> r.status, error |-> r.error,
                        topK |-> 0, results |-> <<>>, arg |-> NoArg, stats |-> r.stats]
    /\ UNCHANGED rindex
    /\ UNCHANGED indexerVars

RNext ==
    \/ RLoadIndex
    \/ RFindSimilar
    \/ RFindSimilarByRequirements
    \/ RFilterResults
    \/ RGetIndexStats

SpecRetriever == RInit /\ [][RNext]_vars

----------------------------------------------------------------------------
(* Properties of the retriever *)

QueryOps == {"findSimilar", "findSimilarByRequirements"}

ReadOps == QueryOps \cup {"filterResults", "getIndexStats"}

QueryReturned == lastCall.op \in QueryOps /\ lastCall.status = "returned"

(* the record can be scored against the query embedding *)
Scorable(doc, queryEmbedding) ==
    Has(doc, "embedding") /\ Len(doc.embedding) = Len(queryEmbedding)

(* C2: findSimilar with topK = K returns at most K results, in             *)
(* non-increasing order of score, none with an embedding field.            *)
C2_TopKSortedStripped ==
    QueryReturned =>
       /\ Len(lastCall.results) <= lastCall.topK
       /\ \A i, j \in 1..Len(lastCall.results) :
             i < j => ~ScoreLess(lastCall.results[i].score, lastCall.results[j].score)
       /\ \A i \in 1..Len(lastCall.results) : ~Has(lastCall.results[i], "embedding")

C2_Witness ==
    /\ QueryReturned
    /\ Len(rindex.val) > lastCall.topK
    /\ Len(lastCall.results) = lastCall.topK
    /\ lastCall.topK >= 2
    /\ ScoreLess(lastCall.results[2].score, lastCall.results[1].score)
    /\ \E k \in 1..Len(rindex.val) :
          /\ Has(rindex.val[k], "embedding")
          /\ rindex.val[k].id = lastCall.results[1].id
    /\ rindex.val[1].id # lastCall.results[1].id

(* C3: a Record whose embedding is absent or of another dimensionality     *)
(* than the query embedding never appears in the results of a query.       *)
C3_UnscorableNeverReturned ==
    QueryReturned =>
       \A i \in 1..Len(lastCall.results) :
          \E k \in 1..Len(rindex.val) :
             /\ Scorable(rindex.val[k], lastCall.arg.query.vec)
             /\ Without(rindex.val[k], "embedding") = Without(lastCall.results[i], "score")

(* C8: a query on an empty Store returns an empty sequence and does not    *)
(* raise, whatever the embedding collaborator would answer.                *)
C8_EmptyStoreReturnsEmpty ==
    [][(lastCall'.op \in QueryOps /\ rindex = EmptyArray) =>
          (lastCall'.status = "returned" /\ lastCall'.results = <<>>)]_vars

C8_Witness ==
    /\ lastCall.op \in QueryOps
    /\ rindex = EmptyArray
    /\ ~lastCall.arg.query.ok
    /\ lastCall.topK >= 1
    /\ lastCall.status = "returned"

(* C9: findSimilar, findSimilarByRequirements, filterResults and           *)
(* getIndexStats leave the Store as it was, whether they return or throw:  *)
(* same Records, same order, same fields, embedding kept, no score added.  *)
C9_QueriesDoNotMutateStore ==
    [][lastCall'.op \in ReadOps =>
          /\ rindex' = rindex
          /\ rindex.kind = "array" =>
                \A k \in 1..Len(rindex'.val) : ~Has(rindex'.val[k], "score")]_vars

C9_Witness ==
    /\ QueryReturned
    /\ Len(lastCall.results) >= 2
    /\ lastCall.results[1].id # rindex.val[1].id
    /\ Has(rindex.val[2], "embedding")
    /\ \A k \in 1..Len(rindex.val) : ~Has(rindex.val[k], "score")

(* a well-formed payload: a sequence of Record-shaped objects *)
RecordShaped(x) == {"id", "customer", "industry", "features", "complexity"} \subseteq DOMAIN x

WellFormedIndex(content) ==
    content.kind = "array" /\ \A k \in 1..Len(content.val) : RecordShaped(content.val[k])

(* C10: loadIndex fails, with the error surfaced to the caller, whenever   *)
(* the payload is not a well-formed sequence of Record-shaped objects.     *)
C10_MalformedIndexFails ==
    (lastCall.op = "loadIndex" /\ lastCall.arg.type = "path"
        /\ ~WellFormedIndex(lastCall.arg.content))
      => lastCall.status = "threw"

----------------------------------------------------------------------------
(* Persistence: saveIndex of an indexer holding a store, then loadIndex of *)
(* the artifact.  Every value of a Record is a JSON value (a string, a     *)
(* finite number, an array of those), which JSON.parse(JSON.stringify(v))  *)
(* gives back; what a load gives is therefore what the file at the path    *)
(* holds after the two writes of saveIndex.                                *)

(* JSON.parse of the content of a file *)
Parse(content) == content.val

(* the record processSowFile returns for a file with usable text *)
SowRecordOf(file) ==
    SowRecord(file, SowExtractMetadata(file), file.embed.vec, file.text.len)

SowStoreUniverse ==
    {SowRecordOf(RetrieverFiles[i]) :
        i \in {k \in 1..Len(RetrieverFiles) :
                  /\ RetrieverFiles[k].text.st = "ok"
                  /\ SowTextUsable([isNull |-> FALSE, len |-> RetrieverFiles[k].text.len])}}

StoresOf(class) ==
    IF class = "gdrive" THEN Stores ELSE SeqsUpTo(SowStoreUniverse, MaxStore)

(* SowIndexer.loadIndex(indexPath): a missing file leaves this.index as it is *)
SowLoadIndex(idx, content) ==
    IF content.kind = "missing" THEN idx ELSE Parse(content)

PInit ==
    /\ impl \in {"gdrive", "sow"}
    /\ files = <<>>
    /\ outputPath \in OutputPaths
    /\ index \in StoresOf(impl)
    /\ pos = 1
    /\ pc = "idle"
    /\ cur = NoCur
    /\ processed = 0
    /\ failed = 0
    /\ disk = [p \in DiskPaths |-> Missing]
    /\ summary = NoSummary
    /\ runs = 0
    /\ startLen = 0
    /\ outcomes = <<>>
    /\ rindex = EmptyArray
    /\ lastCall = NoCall

PersistenceUnchanged ==
    UNCHANGED <<impl, files, outputPath, pos, pc, cur, processed, failed, summary, runs,
                startLen, outcomes>>

(* saveIndex(outputPath) of either indexer *)
PSaveIndex ==
    /\ \E outcome \in IoOutcomes :
          LET saved == IF impl = "gdrive"
                       THEN SaveIndex(index, disk, outputPath, outcome)
                       ELSE SowSaveIndex(index, disk, outputPath, outcome)
          IN  /\ disk' = saved.disk
              /\ lastCall' = [op |-> "saveIndex",
                              status |-> IF saved.threw THEN "threw" ELSE "returned",
                              error |-> IF saved.threw THEN "EIO" ELSE "none",
                              topK |-> 0, results |-> <<>>,
                              arg |-> [type |-> "path", path |-> outputPath],
                              stats |-> NoStats]
    /\ UNCHANGED <<index, rindex>>
    /\ PersistenceUnchanged

(* RagRetriever.loadIndex(path) of one of the two artifacts *)
PLoadIndex ==
    /\ \E p \in {outputPath, LightPath(outputPath)} :
          LET indexData == [type |-> "path", content |-> disk[p]]
              r == LoadIndex(rindex, indexData)
          IN  /\ rindex' = r.index
              /\ lastCall' = [op |-> "loadIndex", status |-> r.status, error |-> r.error,
                              topK |-> 0, results |-> <<>>,
                              arg |-> [type |-> "path", path |-> p, content |-> disk[p]],
                              stats |-> NoStats]
    /\ UNCHANGED <<index, disk>>
    /\ PersistenceUnchanged

(* SowIndexer.loadIndex(outputPath) on the indexer that saved *)
PSowLoadIndex ==
    /\ impl = "sow"
    /\ index' = SowLoadIndex(index, disk[outputPath])
    /\ lastCall' = [op |-> "sowLoadIndex", status |-> "returned", error |-> "none",
                    topK |-> 0, results |-> <<>>,
                    arg |-> [type |-> "path", path |-> outputPath,
                             content |-> disk[outputPath]],
                    stats |-> NoStats]
    /\ UNCHANGED <<disk, rindex>>
    /\ PersistenceUnchanged

PNext ==
    \/ PSaveIndex
    \/ PLoadIndex
    \/ PSowLoadIndex

SpecPersistence == PInit /\ [][PNext]_vars

(* a saveIndex call has just returned: both artifacts of the snapshot are written *)
SnapshotCompleted == lastCall.op = "saveIndex" /\ lastCall.status = "returned"

(* C11: loading the full artifact right after a completed snapshot of a    *)
(* Store gives the same Records in the same order, field for field,        *)
(* embeddings included (RagRetriever.loadIndex into the retriever,         *)
(* SowIndexer.loadIndex into the indexer).                                 *)
C11_RoundTrip ==
    [][SnapshotCompleted =>
          /\ (lastCall'.op = "loadIndex" /\ lastCall'.arg.path = outputPath) =>
                (lastCall'.status = "returned" /\ rindex' = ArrayOf(index))
          /\ lastCall'.op = "sowLoadIndex" => index' = index]_vars

----------------------------------------------------------------------------
(* The adapters and the vector math called on their own: the call and its *)
(* arguments are drawn at the start, the step makes the call and keeps     *)
(* what it gave in lastCall.                                               *)

MaxDim == 2          \* longest vector handed to cosineSimilarity
MaxComponent == 2    \* largest absolute value of a vector component

(* what the LLM collaborator can answer for a document *)
LlmAnswers ==
    {[kind |-> "object", meta |-> Meta("Acme", "banking", <<"IVR">>, "high")],
     [kind |-> "throws", meta |-> NoMeta],
     [kind |-> "noSpan", meta |-> NoMeta],
     [kind |-> "malformed", meta |-> NoMeta]}

ExtractInputs == {[d EXCEPT !.llm = a] : d \in DocKinds, a \in LlmAnswers}

Components == (-MaxComponent)..MaxComponent

VectorArgs == {Undefined} \cup {Defined(v) : v \in SeqsUpTo(Components, MaxDim)}

Pending(op, arg) == [op |-> op, status |-> "pending", arg |-> arg, result |-> "none"]

FunctionCalls ==
    {Pending("extractMetadata", [class |-> class, name |-> file.name, llm |-> file.llm]) :
        class \in {"gdrive", "sow"}, file \in ExtractInputs}
    \cup {Pending("cosineSimilarity", [vecA |-> vecA, vecB |-> vecB]) :
              vecA \in VectorArgs, vecB \in VectorArgs}

FInit ==
    /\ impl = "gdrive"
    /\ files = <<>>
    /\ outputPath = PathJson
    /\ index = <<>>
    /\ pos = 1
    /\ pc = "idle"
    /\ cur = NoCur
    /\ processed = 0
    /\ failed = 0
    /\ disk = [p \in DiskPaths |-> Missing]
    /\ summary = NoSummary
    /\ runs = 0
    /\ startLen = 0
    /\ outcomes = <<>>
    /\ rindex = EmptyArray
    /\ lastCall \in FunctionCalls

IsPending(op) == lastCall.op = op /\ lastCall.status = "pending"

Called(op) == lastCall.op = op /\ lastCall.status # "pending"

(* extractMetadata(text, fileName) of either indexer *)
FExtractMetadata ==
    /\ IsPending("extractMetadata")
    /\ LET r == ExtractMetadata(lastCall.arg.class, lastCall.arg)
       IN  lastCall' = [lastCall EXCEPT !.status = r.status, !.result = r.value]
    /\ UNCHANGED <<indexerVars, rindex>>

(* cosineSimilarity(vecA, vecB) *)
FCosineSimilarity ==
    /\ IsPending("cosineSimilarity")
    /\ lastCall' = [lastCall EXCEPT
                       !.status = "returned",
                       !.result = CosineSimilarity(lastCall.arg.vecA, lastCall.arg.vecB)]
    /\ UNCHANGED <<indexerVars, rindex>>

FNext ==
    \/ FExtractMetadata
    \/ FCosineSimilarity

SpecFunctions == FInit /\ [][FNext]_vars

(* the metadata each class falls back to for a source name *)
FallbackFor(class, name) ==
    IF class = "gdrive" THEN ExtractMetadataFromFilename(name) ELSE SowBasicMetadata(name)

----------------------------------------------------------------------------
(* Further properties of the retriever *)

(* C13: when generateEmbedding fails during a query on a non-empty Store,  *)
(* the caller of findSimilar / findSimilarByRequirements gets that error:  *)
(* the call throws and no result sequence, partial or empty, is returned.  *)
C13_EmbeddingFailureSurfaced ==
    (/\ lastCall.op \in QueryOps
     /\ ~lastCall.arg.query.ok
     /\ rindex.kind = "array"
     /\ Len(rindex.val) > 0)
      => (lastCall.status = "threw" /\ lastCall.error = "EmbeddingError")

C13_Witness ==
    /\ lastCall.op = "findSimilarByRequirements"
    /\ ~lastCall.arg.query.ok
    /\ rindex.kind = "array"
    /\ Len(rindex.val) = 2
    /\ lastCall.status = "threw"
    /\ lastCall.error = "EmbeddingError"
    /\ lastCall.results = <<>>

(* out is the sub-sequence of inp made of the entries at the positions in keep *)
IsSubSequenceAt(out, inp, keep) ==
    \E f \in [1..Len(out) -> 1..Len(inp)] :
       /\ \A i, j \in 1..Len(out) : i < j => f[i] < f[j]
       /\ {f[i] : i \in 1..Len(out)} = keep
       /\ \A i \in 1..Len(out) : out[i] = inp[f[i]]

C15_StatsOfEveryStore ==
    (lastCall.op = "getIndexStats" /\ rindex.kind = "array") =>
       /\ lastCall.status = "returned"
       /\ DOMAIN lastCall.stats = {"total", "byIndustry", "topFeatures", "byComplexity"}
       /\ lastCall.stats.total = Len(rindex.val)
       /\ DOMAIN lastCall.stats.byIndustry =
             {KeyOr(rindex.val[i], "industry") : i \in 1..Len(rindex.val)}
       /\ \A k \in DOMAIN lastCall.stats.byIndustry :
             lastCall.stats.byIndustry[k] =
                Cardinality({i \in 1..Len(rindex.val) :
                                KeyOr(rindex.val[i], "industry") = k})
       /\ Len(lastCall.stats.topFeatures) <= TopFeaturesLimit
       /\ \A i, j \in 1..Len(lastCall.stats.topFeatures) :
             i < j => lastCall.stats.topFeatures[i][2] >= lastCall.stats.topFeatures[j][2]

----------------------------------------------------------------------------
(* Properties of the vector math *)

IsZeroVector(v) == \A i \in 1..Len(v) : v[i] = 0

(* C16: cosineSimilarity returns exactly 0 when either vector is absent,   *)
(* when either is empty, when the lengths differ and when either vector    *)
(* has zero norm; it does not raise and does not return NaN.               *)
C16_CosineDegenerateIsZero ==
    (/\ Called("cosineSimilarity")
     /\ \/ ~lastCall.arg.vecA.present
        \/ ~lastCall.arg.vecB.present
        \/ lastCall.arg.vecA.v = <<>>
        \/ lastCall.arg.vecB.v = <<>>
        \/ Len(lastCall.arg.vecA.v) # Len(lastCall.arg.vecB.v)
        \/ IsZeroVector(lastCall.arg.vecA.v)
        \/ IsZeroVector(lastCall.arg.vecB.v))
      => /\ lastCall.status = "returned"
         /\ lastCall.result # NaN
         /\ lastCall.result = ZeroScore

C16_Witness ==
    /\ Called("cosineSimilarity")
    /\ lastCall.arg.vecA.present
    /\ lastCall.arg.vecB.present
    /\ Len(lastCall.arg.vecA.v) = 2
    /\ Len(lastCall.arg.vecB.v) = 2
    /\ IsZeroVector(lastCall.arg.vecA.v)
    /\ ~IsZeroVector(lastCall.arg.vecB.v)
    /\ lastCall.result = ZeroScore

----------------------------------------------------------------------------
(* Further properties of the indexers *)

CallPcs == {"download", "extract", "metadata", "embed"}

(* C18: indexing is strictly sequential: at every point of a run at most   *)
(* one collaborator call (text extraction, metadata extraction, embedding) *)
(* is in flight, and every call made for document i has completed or       *)
(* failed before any call for document i+1 starts.                         *)
C18_StrictlySequential ==
    /\ Cardinality(cur.calls) <= 1
    /\ \A c \in cur.calls : c.doc = pos /\ Len(outcomes) = pos - 1
    /\ pc \in CallPcs => cur.calls = {Call(pc, pos)}
    /\ pc \notin CallPcs => cur.calls = {}

C18_Witness ==
    /\ pos = 2
    /\ cur.calls = {Call("embed", 2)}
    /\ outcomes = <<"raised">>

(* C19: between the end of processing of one document and the start of     *)
(* processing of the next the indexer always waits the fixed rate-limit    *)
(* delay, whether the first document was processed successfully, degraded  *)
(* to fallback metadata, or failed: the loop moves on to the next document *)
(* only out of the delay.                                                  *)
C19_DelayBetweenDocuments ==
    [][(pos' = pos + 1 /\ pos' <= Len(files)) => pc = "delay"]_vars

(* the run has a Record with an embedding for the document at position i *)
Embedded(i) ==
    \E k \in (startLen + 1)..Len(index) :
       index[k].id = RecordId(files[i]) /\ Has(index[k], "embedding")

(* the run has a Record without embedding for the document at position i *)
MetadataOnly(i) ==
    \E k \in (startLen + 1)..Len(index) :
       index[k].id = RecordId(files[i]) /\ ~Has(index[k], "embedding")

(* C20: a document is embedded if and only if text extraction succeeded    *)
(* and yielded at least 100 characters: text of exactly 100 characters     *)
(* gets an embedding, text of 99 characters gets fallback metadata only    *)
(* (documents whose embedding call answers).                               *)
C20_EmbeddedIffHundredChars ==
    \A i \in 1..Len(outcomes) :
       LET text == TextOf(files[i])
       IN  files[i].embed.ok =>
              /\ Embedded(i) <=> (~text.isNull /\ text.len >= MinTextLength)
              /\ (~text.isNull /\ text.len < MinTextLength) =>
                     MetadataOnly(i) /\ ~Embedded(i)

----------------------------------------------------------------------------
(* Ties in findSimilar *)

(* the score of the Record at position k of the Store against the query *)
ScoreAt(k) ==
    CosineSimilarity(Defined(lastCall.arg.query.vec), EmbeddingOf(rindex.val[k]))

(* Records ranked in front of the one at position k: those of a higher     *)
(* score, and those of the same score inserted before it                   *)
RankAt(k) ==
    1 + Cardinality({i \in 1..Len(rindex.val) :
                        \/ ScoreLess(ScoreAt(k), ScoreAt(i))
                        \/ ScoreAt(i) = ScoreAt(k) /\ i < k})

(* the Record at position k of the Store is the result at its rank *)
ReturnedAt(k) ==
    /\ RankAt(k) <= Len(lastCall.results)
    /\ Without(lastCall.results[RankAt(k)], "score") = Without(rindex.val[k], "embedding")
    /\ lastCall.results[RankAt(k)].score = ScoreAt(k)

(* C21: results with equal score are returned in their original Store     *)
(* insertion order: for any two records i < j in the Store with equal      *)
(* scores that both appear in the result, i appears before j, and if only  *)
(* one of them fits within topK it is i.                                   *)
C21_TiesInInsertionOrder ==
    (QueryReturned /\ Len(rindex.val) > 0) =>
       /\ \A k \in 1..Len(rindex.val) :
             RankAt(k) <= lastCall.topK => ReturnedAt(k)
       /\ \A i, j \in 1..Len(rindex.val) :
             (i < j /\ ScoreAt(i) = ScoreAt(j)) =>
                /\ RankAt(i) < RankAt(j)
                /\ ReturnedAt(j) => ReturnedAt(i)

C21_Witness ==
    /\ QueryReturned
    /\ Len(rindex.val) = 3
    /\ lastCall.topK = 2
    /\ ScoreAt(1) = ScoreAt(2) /\ ScoreAt(2) = ScoreAt(3)
    /\ rindex.val[1].id # rindex.val[2].id /\ rindex.val[2].id # rindex.val[3].id
    /\ rindex.val[1].id # rindex.val[3].id
    /\ ReturnedAt(1) /\ ReturnedAt(2) /\ ~ReturnedAt(3)

----------------------------------------------------------------------------
(* The embedding text *)

EmbeddingLabels ==
    <<"Customer", "Project", "Industry", "Features", "Integrations", "Modules",
      "Summary", "Keywords">>

(* the lines of the embedding text that render a list, and their keys *)
ListLines == {<<4, "features">>, <<5, "integrations">>, <<6, "modules">>, <<8, "keywords">>}

(* the metadata the indexer extracts for a document with usable text *)
MetadataOf(file) ==
    IF impl = "gdrive" THEN GDriveExtractMetadata(file) ELSE SowExtractMetadata(file)

(* C22: the text passed to the embedding collaborator during indexing is a *)
(* function of the extracted metadata only, never of the raw document      *)
(* text: two documents with different raw text but identical metadata      *)
(* produce the identical embedding input, made of the eight labelled lines *)
(* Customer, Project, Industry, Features, Integrations, Modules, Summary,  *)
(* Keywords in that order with empty lists rendered as empty strings.      *)
C22_EmbeddingTextFromMetadataOnly ==
    pc = "embed" =>
       /\ Len(cur.embedText) = Len(EmbeddingLabels)
       /\ \A n \in 1..Len(EmbeddingLabels) : cur.embedText[n][1] = EmbeddingLabels[n]
       /\ \A l \in ListLines :
             cur.meta[l[2]] = <<>> => cur.embedText[l[1]][2] = Str("")
       /\ \A j \in 1..Len(files) :
             (TextUsable(files[j]) /\ MetadataOf(files[j]) = cur.meta) =>
                EmbeddingInput(TextOf(files[j]), MetadataOf(files[j])) = cur.embedText

C22_Witness ==
    /\ pc = "embed"
    /\ pos = 2
    /\ TextOf(files[1]) # TextOf(files[2])
    /\ TextUsable(files[1])
    /\ MetadataOf(files[1]) = cur.meta
    /\ cur.text = TextOf(files[2])
    /\ Len(files) = 3
    /\ MetadataOf(files[3]).features = <<>>

----------------------------------------------------------------------------
(* The criteria of filterResults *)

(* the result has a complexity ordinal, and it is at least the threshold's *)
ComplexityAtLeast(doc, minComplexity) ==
    /\ DocComplexity(doc).def
    /\ ComplexityOrder(minComplexity).def
    /\ DocComplexity(doc).n >= ComplexityOrder(minComplexity).n

MeetsCriteria(doc, criteria) ==
    /\ Truthy(criteria, "industry") =>
          Has(doc, "industry") /\ doc.industry = criteria.industry
    /\ Truthy(criteria, "minComplexity") =>
          ComplexityAtLeast(doc, criteria.minComplexity)
    /\ Has(criteria, "requiredFeatures") =>
          \A f \in Range(criteria.requiredFeatures) :
             Has(doc, "features") /\ f \in Range(doc.features)

(* C23: filterResults keeps a result exactly when all given criteria hold: *)
(* industry equals the criterion exactly, the complexity ordinal under     *)
(* {low:1, medium:2, high:3} is at least the minComplexity ordinal, and    *)
(* the features list contains every required feature; a result whose       *)
(* complexity is missing or not one of low/medium/high is not kept under a *)
(* minComplexity criterion.                                                *)
C23_FilterKeepsExactlyMatching ==
    lastCall.op = "filterResults" =>
       IsSubSequenceAt(lastCall.results, lastCall.arg.input,
                       {i \in 1..Len(lastCall.arg.input) :
                           MeetsCriteria(lastCall.arg.input[i], lastCall.arg.criteria)})

----------------------------------------------------------------------------
(* Snapshots of the indexers *)

(* the step is a saveIndex of the run that returned *)
SnapshotStep ==
    \/ pc = "checkpoint" /\ pc' = "delay" /\ failed' = failed
    \/ pc = "finalSave" /\ pc' = "returned"

(* C24: after every completed snapshot the light artifact is exactly the   *)
(* full artifact with the embedding field removed from each Record: same   *)
(* number of Records, same order, every other field equal; both artifacts  *)
(* are rewritten wholesale by the same snapshot.                           *)
C24_LightIsFullWithoutEmbedding ==
    [][SnapshotStep =>
          LET full == disk'[outputPath]
              light == disk'[LightPath(outputPath)]
          IN  /\ full.kind = "array" /\ light.kind = "array"
              /\ Len(light.val) = Len(full.val)
              /\ \A k \in 1..Len(full.val) :
                    light.val[k] = Without(full.val[k], "embedding")
              /\ Len(full.val) = Len(index)
              /\ \A k \in 1..Len(index) :
                    light.val[k] = Without(index[k], "embedding")]_vars

C24_Witness ==
    /\ pc = "returned"
    /\ runs = 2
    /\ startLen >= 1
    /\ Len(index) > startLen
    /\ \E k \in 1..Len(index) : Has(index[k], "embedding")
    /\ \E k \in 1..Len(index) : ~Has(index[k], "embedding")
    /\ disk[outputPath] = Stringify(index)
    /\ disk[LightPath(outputPath)] = Stringify(LightIndex(index))
    /\ disk[LightPath(outputPath)] # disk[outputPath]

(* C25: the light index path is derived from the full index path by        *)
(* replacing its .json suffix with _metadata.json; for every output path   *)
(* the two artifacts are written to different paths, so the light write    *)
(* never overwrites the full index.                                        *)
C25_LightWriteSparesFullIndex ==
    [][SnapshotStep =>
          /\ outputPath[Len(outputPath)] = ".json" =>
                LightPath(outputPath) = [outputPath EXCEPT ![Len(outputPath)] = "_metadata.json"]
          /\ LightPath(outputPath) # outputPath
          /\ disk'[outputPath] = Stringify(index)]_vars

----------------------------------------------------------------------------
(* The file-name fallback *)

(* the tokens of a source name that are no version or boilerplate token *)
RemainingTokens(name) ==
    SelectSeq(name.tokens,
              LAMBDA tok : LowerCase(tok) \notin {"sow", "scope", "version"}
                                                  \cup VDigit \cup Digits)

(* C26: the filename fallback splits the source name on '_', '-' and       *)
(* whitespace, discards the version/boilerplate tokens (sow, scope,        *)
(* v<digit>, bare numbers), and returns metadata whose customer is the     *)
(* first remaining token (or 'Unknown' if none remain), whose project and  *)
(* keywords are all remaining tokens, with industry 'unknown', complexity  *)
(* 'medium' and empty modules/integrations/features; every fallback path   *)
(* of the indexers returns this same shape.                                *)
C26_FallbackShape ==
    (Called("extractMetadata") /\ lastCall.arg.llm.kind # "object") =>
       LET remaining == RemainingTokens(lastCall.arg.name)
           m == lastCall.result
       IN  /\ m.customer = IF remaining = <<>> THEN "Unknown" ELSE remaining[1]
           /\ m.project = Join(remaining, " ")
           /\ m.keywords = remaining
           /\ m.industry = "unknown"
           /\ m.complexity = "medium"
           /\ m.modules = <<>> /\ m.integrations = <<>> /\ m.features = <<>>

----------------------------------------------------------------------------
(* Counters and the Store *)

(* C27: in an indexing run every candidate document is counted in at most  *)
(* one of processed and failed: at every point processed + failed is at    *)
(* most the number of documents visited so far and at the end              *)
(* processed + failed <= total, also when a periodic checkpoint write      *)
(* fails.                                                                  *)
C27_CountedAtMostOnce ==
    /\ processed + failed <= Visited
    /\ pc = "returned" => summary.processed + summary.failed <= summary.total

(* the documents of the run counted in failed so far *)
CountedFailed == {i \in 1..Visited : outcomes[i] \in {"raised", "recordRaised"}}

(* the Records the current run added to the Store *)
AddedByRun == (startLen + 1)..Len(index)

(* C28: a document counted as failed leaves the Store unchanged: whenever  *)
(* processing a document raises, in the download, metadata, embedding or   *)
(* checkpoint step, no Record for it is in the Store afterwards.           *)
C28_FailedLeavesStoreUnchanged ==
    /\ Len(index) - startLen = Visited - Cardinality(CountedFailed)
                                 - Cardinality({i \in 1..Visited : outcomes[i] = "none"})
    /\ \A i \in CountedFailed :
          (\A j \in 1..Len(files) : j # i => RecordId(files[j]) # RecordId(files[i])) =>
             \A k \in AddedByRun : index[k].id # RecordId(files[i])

----------------------------------------------------------------------------
(* Growth of the persisted full index *)

IsPrefixOf(a, b) == Len(a) <= Len(b) /\ \A i \in 1..Len(a) : a[i] = b[i]

(* C29: within one run the persisted full index only grows: each snapshot  *)
(* is a prefix of every later snapshot of the same run and of the final    *)
(* Store, and every snapshot is taken at a document boundary, so that it   *)
(* never exposes a partially built Record.                                 *)
C29_SnapshotsOnlyGrow ==
    [][/\ IsPrefixOf(index, index')
       /\ disk'[outputPath] # disk[outputPath] =>
             /\ pc \in {"checkpoint", "finalSave"}
             /\ cur.calls = {}
             /\ Len(index) - startLen = Cardinality({i \in 1..Visited :
                                             outcomes[i] \in {"record", "recordRaised"}})
             /\ disk'[outputPath].kind = "array"
             /\ IsPrefixOf(disk'[outputPath].val, index')
             /\ disk[outputPath].kind = "array" =>
                   IsPrefixOf(disk[outputPath].val, disk'[outputPath].val)]_vars

----------------------------------------------------------------------------
(* FlowchartDrawioGenerator.calculateLevels(nodes, edges).  While the call *)
(* runs lastCall holds its frame: levels, adjacency, queue and visited.    *)
(* The objects levels and adjacency are functions whose DOMAIN is the set  *)
(* of their keys.                                                          *)

MaxNodes == 3
MaxEdges == 3

(* node ids are 1..MaxNodes; UnknownId is an id no node has *)
UnknownId == 0
NodeIds == 1..MaxNodes
EdgeIds == NodeIds \cup {UnknownId}

FlowNodes(n, startAt) ==
    [i \in 1..n |-> [id |-> i, type |-> IF i = startAt THEN "start" ELSE "process"]]

FlowEdges == SeqsUpTo([from : EdgeIds, to : EdgeIds], MaxEdges)

EmptyObject == [k \in {} |-> 0]

Put(object, key, value) == (key :> value) @@ object

(* lines 101-105: adjacency[edge.from] gets edge.to appended, edge by edge *)
RECURSIVE AdjacencyFrom(_, _, _)
AdjacencyFrom(edges, i, adjacency) ==
    IF i > Len(edges)
    THEN adjacency
    ELSE LET edge == edges[i]
             list == IF edge.from \in DOMAIN adjacency THEN adjacency[edge.from] ELSE <<>>
         IN  AdjacencyFrom(edges, i + 1, Put(adjacency, edge.from, Append(list, edge.to)))

BuildAdjacency(edges) == AdjacencyFrom(edges, 1, EmptyObject)

(* line 108: nodes.find(n => n.type === 'start') || nodes[0] *)
FindStartNode(nodes) ==
    IF \E i \in 1..Len(nodes) : nodes[i].type = "start"
    THEN nodes[CHOOSE i \in 1..Len(nodes) :
                   /\ nodes[i].type = "start"
                   /\ \A j \in 1..(i - 1) : nodes[j].type # "start"]
    ELSE IF nodes # <<>> THEN nodes[1] ELSE Undefined

NeighborLevelSame(level) == level

(* line 121: the level a neighbour is queued with *)
NeighborLevel(level) == level + 1

(* lines 118-123: the neighbours of id not yet visited, queued in order *)
RECURSIVE QueueNeighbors(_, _, _, _)
QueueNeighbors(neighbors, i, visited, level) ==
    IF i > Len(neighbors)
    THEN <<>>
    ELSE (IF neighbors[i] \notin visited
          THEN <<[id |-> neighbors[i], level |-> NeighborLevel(level)]>>
          ELSE <<>>)
         \o QueueNeighbors(neighbors, i + 1, visited, level)

(* lines 127-131: a node without a level gets the number of keys of levels *)
RECURSIVE AssignDisconnected(_, _, _)
AssignDisconnected(nodes, i, levels) ==
    IF i > Len(nodes)
    THEN levels
    ELSE AssignDisconnected(nodes, i + 1,
            IF nodes[i].id \in DOMAIN levels
            THEN levels
            ELSE Put(levels, nodes[i].id, Cardinality(DOMAIN levels)))

LevelsFrame(status, arg, levels, adjacency, queue, visited) ==
    [op |-> "calculateLevels", status |-> status, arg |-> arg, levels |-> levels,
     adjacency |-> adjacency, queue |-> queue, visited |-> visited]

LInit ==
    /\ impl = "gdrive"
    /\ files = <<>>
    /\ outputPath = PathJson
    /\ index = <<>>
    /\ pos = 1
    /\ pc = "idle"
    /\ cur = NoCur
    /\ processed = 0
    /\ failed = 0
    /\ disk = [p \in DiskPaths |-> Missing]
    /\ summary = NoSummary
    /\ runs = 0
    /\ startLen = 0
    /\ outcomes = <<>>
    /\ rindex = EmptyArray
    /\ \E n \in 0..MaxNodes, edges \in FlowEdges :
          \E startAt \in 0..n :
             lastCall = LevelsFrame("pending",
                                    [nodes |-> FlowNodes(n, startAt), edges |-> edges],
                                    EmptyObject, EmptyObject, <<>>, {})

(* lines 98-110: up to the first test of the while loop; startNode.id      *)
(* throws a TypeError when nodes is empty                                  *)
LCalculateLevelsStart ==
    /\ IsPending("calculateLevels")
    /\ LET startNode == FindStartNode(lastCall.arg.nodes)
       IN  lastCall' =
              IF startNode = Undefined
              THEN [lastCall EXCEPT !.status = "threw",
                                    !.adjacency = BuildAdjacency(lastCall.arg.edges)]
              ELSE [lastCall EXCEPT !.status = "loop",
                                    !.adjacency = BuildAdjacency(lastCall.arg.edges),
                                    !.queue = <<[id |-> startNode.id, level |-> 0]>>]
    /\ UNCHANGED <<indexerVars, rindex>>

(* lines 112-124: one iteration of the while loop *)
LDequeue ==
    /\ lastCall.op = "calculateLevels"
    /\ lastCall.status = "loop"
    /\ lastCall.queue # <<>>
    /\ LET id == Head(lastCall.queue).id
           level == Head(lastCall.queue).level
           rest == Tail(lastCall.queue)
           neighbors == IF id \in DOMAIN lastCall.adjacency
                        THEN lastCall.adjacency[id] ELSE <<>>
           visited == lastCall.visited \cup {id}
       IN  lastCall' =
              IF id \in lastCall.visited
              THEN [lastCall EXCEPT !.queue = rest]
              ELSE [lastCall EXCEPT
                       !.visited = visited,
                       !.levels = Put(@, id, level),
                       !.queue = rest \o QueueNeighbors(neighbors, 1, visited, level)]
    /\ UNCHANGED <<indexerVars, rindex>>

(* lines 126-133: the loop has ended; disconnected nodes, return levels *)
LReturn ==
    /\ lastCall.op = "calculateLevels"
    /\ lastCall.status = "loop"
    /\ lastCall.queue = <<>>
    /\ lastCall' = [lastCall EXCEPT
                       !.status = "returned",
                       !.levels = AssignDisconnected(lastCall.arg.nodes, 1, @)]
    /\ UNCHANGED <<indexerVars, rindex>>

LNext ==
    \/ LCalculateLevelsStart
    \/ LDequeue
    \/ LReturn

(* calculateLevels is synchronous: once called it runs until it returns    *)
SpecFlowchart == LInit /\ [][LNext]_vars /\ WF_vars(LNext)

(* the ids reached from start by a path of exactly k edges *)
RECURSIVE ReachIn(_, _, _)
ReachIn(edges, start, k) ==
    IF k = 0
    THEN {start}
    ELSE {edges[i].to : i \in {j \in 1..Len(edges) :
                                  edges[j].from \in ReachIn(edges, start, k - 1)}}

Reachable(edges, start) == UNION {ReachIn(edges, start, k) : k \in 0..Len(edges)}

Distance(edges, start, id) ==
    CHOOSE k \in 0..Len(edges) :
        /\ id \in ReachIn(edges, start, k)
        /\ \A j \in 0..(k - 1) : id \notin ReachIn(edges, start, j)

LevelsAreDistances ==
    (lastCall.status \in {"returned", "threw"} /\ Len(lastCall.arg.nodes) >= 1) =>
       LET nodes == lastCall.arg.nodes
           edges == lastCall.arg.edges
           start == FindStartNode(nodes).id
           levels == lastCall.levels
       IN  /\ lastCall.status = "returned"
           /\ \A i \in 1..Len(nodes) : nodes[i].id \in DOMAIN levels
           /\ levels[start] = 0
           /\ \A i \in 1..Len(nodes) :
                 nodes[i].id \in Reachable(edges, start) =>
                    levels[nodes[i].id] = Distance(edges, start, nodes[i].id)

(* C30: calculateLevels terminates for every flowchart with at least one   *)
(* node, graphs with cycles, self-loops and edges to unknown node ids      *)
(* included, and assigns a level to every node: a node reachable from the  *)
(* start node gets its shortest-path edge distance from the start node,    *)
(* and the start node gets level 0.                                        *)
C30_LevelsTerminateWithDistances ==
    /\ Len(lastCall.arg.nodes) >= 1 => <>(lastCall.status = "returned")
    /\ []LevelsAreDistances

C30_Witness ==
    /\ lastCall.status = "returned"
    /\ LET nodes == lastCall.arg.nodes
           edges == lastCall.arg.edges
           start == FindStartNode(nodes).id
       IN  /\ \E i \in 1..Len(edges) : edges[i].to = edges[i].from
           /\ \E i \in 1..Len(edges) : edges[i].to = UnknownId
           /\ \E i \in 1..Len(nodes) :
                 /\ nodes[i].id # start
                 /\ nodes[i].id \in Reachable(edges, start)
                 /\ lastCall.levels[nodes[i].id] >= 1

====
